---- MODULE Spec2Model ----
(***************************************************************************)
(* Device Simulator API (app.py, utils/redis_helper.py,                    *)
(* utils/data_models.py): the request handlers of the service, the decoding *)
(* of a stored device record into a Device, and the command log kept in the *)
(* store, as a state machine over the store's keyspace.                     *)
(*                                                                          *)
(* A key "device:a:commands" is the sequence of its ':'-separated segments, *)
(* <<"device", "a", "commands">>; a device id is the sequence of segments   *)
(* that follow "device".                                                    *)
(***************************************************************************)
EXTENDS Integers, Sequences, FiniteSets, TLC

VARIABLES
    lifespan,  \* the lifespan context of the app: in "startup" (before its yield)
               \* or "serving" (at the yield: requests are handled)
    pool,      \* redis_connection_pool: "unset" (None) or "ready"
    store,     \* the keyspace of the store: key -> value
    now,       \* the wall clock: what the next datetime.now(timezone.utc) returns
    seeded,    \* how many commands device D1 had logged before the requests modelled here
    req        \* the requests: slot -> position and locals of its handler, and
               \* in `fault` the first failure a store call of the request met

vars == <<lifespan, pool, store, now, seeded, req>>

-----------------------------------------------------------------------------
(* Bounds of the model *)

\* requests in flight or answered
NumRequests == 2

-----------------------------------------------------------------------------
(* Program constants *)

\* ltrim(command_history_key, 0, 99): index of the last entry kept
TrimStop == 99

\* settings.REDIS_MAX_CONNECTIONS: max_connections of the connection pool
REDIS_MAX_CONNECTIONS == 10

HTTP_200_OK == 200
HTTP_400_BAD_REQUEST == 400
HTTP_404_NOT_FOUND == 404
HTTP_500_INTERNAL_SERVER_ERROR == 500
HTTP_503_SERVICE_UNAVAILABLE == 503

\* the number of entries a trimmed list keeps
HistoryLimit == TrimStop + 1

\* the clock value at which the modelled requests start: later than every seeded entry
ClockStart == HistoryLimit + 1

-----------------------------------------------------------------------------
(* The store: keys and values *)

D1 == <<"d1">>
D2 == <<"d2">>
DeviceIds == {D1, D2}

\* f"device:{device_id}"
DeviceKey(device_id) == <<"device">> \o device_id

\* f"device:{device_id}:commands"
CommandsKey(device_id) == <<"device">> \o device_id \o <<"commands">>

Keys == {DeviceKey(i) : i \in DeviceIds} \cup {CommandsKey(i) : i \in DeviceIds}

\* a key that does not exist
NoValue == [kind |-> "none", fields |-> {}, items |-> <<>>]

HashValue(fields) == [kind |-> "hash", fields |-> fields, items |-> <<>>]

\* Redis removes a list that becomes empty
ListValue(items) ==
    IF items = <<>> THEN NoValue
    ELSE [kind |-> "list", fields |-> {}, items |-> items]

\* what LRANGE key 0 -1 returns for a list or an absent key
ListItems(st, key) == st[key].items

\* the hash fields of a record are (name, value) pairs; a field that is absent
\* has no pair
HasField(fields, f) == \E p \in fields : p[1] = f

FieldValue(fields, f) == (CHOOSE p \in fields : p[1] = f)[2]

\* dict.get(key, default)
DictGet(fields, f, default) ==
    IF HasField(fields, f) THEN FieldValue(fields, f) ELSE default

\* dict[key] = value, and HSET key field value on a hash
DictSet(fields, f, value) == {p \in fields : p[1] # f} \cup {<<f, value>>}

\* the stored records the requests meet: valid and online (in both spellings),
\* valid and not online, records that lack a field (status is optional), and
\* records whose name or type is the empty string
OnlineRecord == {<<"name", "Lamp">>, <<"type", "light">>, <<"status", "active">>, <<"online", "true">>}
UpperRecord == {<<"name", "Lamp">>, <<"type", "light">>, <<"status", "idle">>, <<"online", "TRUE">>}
OfflineRecord == {<<"name", "Lamp">>, <<"type", "light">>, <<"status", "inactive">>, <<"online", "false">>}
YesRecord == {<<"name", "Lamp">>, <<"type", "light">>, <<"status", "active">>, <<"online", "yes">>}
NoOnlineRecord == {<<"name", "Lamp">>, <<"type", "light">>, <<"status", "active">>}
NoNameRecord == {<<"type", "light">>, <<"status", "active">>, <<"online", "true">>}
NoTypeRecord == {<<"name", "Lamp">>, <<"status", "active">>, <<"online", "true">>}
NoStatusRecord == {<<"name", "Lamp">>, <<"type", "light">>, <<"online", "false">>}
EmptyNameRecord == {<<"name", "">>, <<"type", "light">>, <<"status", "active">>, <<"online", "true">>}
EmptyTypeRecord == {<<"name", "Lamp">>, <<"type", "">>, <<"status", "active">>, <<"online", "false">>}

\* a record that also holds a field named id, with another device's id, and a
\* field the models do not declare
StoredIdRecord ==
    {<<"name", "Lamp">>, <<"type", "light">>, <<"status", "active">>,
     <<"online", "true">>, <<"id", D2>>, <<"firmware", "1.0">>}

StoredRecords ==
    {OnlineRecord, UpperRecord, OfflineRecord, YesRecord, NoOnlineRecord,
     NoNameRecord, NoTypeRecord, NoStatusRecord, EmptyNameRecord,
     EmptyTypeRecord, StoredIdRecord}

-----------------------------------------------------------------------------
(* utils/data_models.py *)

\* a comparison that is sensitive to case: the value as stored
Lower_CaseSensitive(s) == s

\* str.lower() on the values the online field takes
Lower(s) ==
    CASE s = "TRUE" -> "true"
      [] s = "True" -> "true"
      [] s = "FALSE" -> "false"
      [] s = "False" -> "false"
      [] s = "YES" -> "yes"
      [] OTHER -> s

\* Device(**raw_data): name and type are required, status defaults to
\* "active", id and online are required and always supplied by the caller;
\* every stored value is a string, the empty string too, so no field fails
\* its type
DeviceValid(raw) == HasField(raw, "name") /\ HasField(raw, "type")

\* a Device whose status is the default whatever the record holds
Device_StatusDefaulted(raw, id, online) ==
    [id |-> id,
     name |-> FieldValue(raw, "name"),
     type |-> FieldValue(raw, "type"),
     status |-> "active",
     online |-> online]

Device(raw, id, online) ==
    [id |-> id,
     name |-> FieldValue(raw, "name"),
     type |-> FieldValue(raw, "type"),
     status |-> DictGet(raw, "status", "active"),
     online |-> online]

NoDevice == [id |-> <<>>, name |-> "", type |-> "", status |-> "", online |-> FALSE]

\* JSON values of a command body: a type and the value's text
JStr(s) == [type |-> "string", val |-> s]
JNull == [type |-> "null", val |-> "null"]
JInt(s) == [type |-> "int", val |-> s]
JMap(s) == [type |-> "object", val |-> s]
Absent == [type |-> "absent", val |-> ""]

Body(action, parameters) == [action |-> action, parameters |-> parameters]

ValidBodies ==
    {Body(JStr("toggle"), Absent), Body(JStr("set"), JMap("{x:1}"))}

InvalidBodies ==
    {Body(Absent, JMap("{x:1}")), Body(JNull, JMap("{}")),
     Body(JInt("123"), JMap("{}")), Body(JStr("set"), JStr("text"))}

Bodies == ValidBodies \cup InvalidBodies

\* a validation that coerces a number to str, as a lax str field does
CommandPayloadValid_CoercesInt(command) ==
    /\ command.action.type \in {"string", "int"}
    /\ command.parameters.type \in {"absent", "object"}

\* CommandPayload(**command) validates: action is a required str, parameters
\* a Dict[str, Any] when given
CommandPayloadValid(command) ==
    /\ command.action.type = "string"
    /\ command.parameters.type \in {"absent", "object"}

\* a payload whose parameters default to None instead of the empty dict
CommandPayload_NoDefault(command) ==
    [action |-> command.action.val,
     parameters |-> IF command.parameters.type = "absent" THEN "null"
                    ELSE command.parameters.val]

\* CommandPayload(**command): parameters defaults to the empty dict
CommandPayload(command) ==
    [action |-> command.action.val,
     parameters |-> IF command.parameters.type = "absent" THEN "{}"
                    ELSE command.parameters.val]

\* CommandResponse(message, device_id, action_performed, timestamp)
CommandResponse(device_id, action_performed, timestamp) ==
    [device_id |-> device_id, action_performed |-> action_performed,
     timestamp |-> timestamp]

NoReceipt == CommandResponse(<<>>, "", 0)

-----------------------------------------------------------------------------
(* utils/redis_helper.py *)

\* how a call to the store ends: it answers, the connection fails
\* (redis ConnectionError), or it fails otherwise (TimeoutError, a RedisError
\* that is no ConnectionError)
StoreOutcomes == {"ok", "ConnectionError", "TimeoutError"}

Fetched(tag, device) == [tag |-> tag, device |-> device]

\* a helper that takes every online value but "false" for true
get_device_data_from_redis_Truthy(st, device_id, outcome) ==
    LET device_key == DeviceKey(device_id)
        raw_data == st[device_key].fields
        online == DictGet(raw_data, "online", "false") # "false"
        id == FieldValue(DictSet(raw_data, "id", device_id), "id")
    IN  CASE outcome = "ConnectionError" -> Fetched("none", NoDevice)
          [] outcome = "TimeoutError" -> Fetched("RuntimeError", NoDevice)
          [] st[device_key].kind = "list" -> Fetched("RuntimeError", NoDevice)
          [] raw_data = {} -> Fetched("none", NoDevice)
          [] ~DeviceValid(raw_data) -> Fetched("ValidationError", NoDevice)
          [] OTHER -> Fetched("device", Device(raw_data, id, online))

\* a helper without the `if not raw_data` test: the empty mapping goes on to
\* Device(**raw_data)
get_device_data_from_redis_NoEmptyTest(st, device_id, outcome) ==
    LET device_key == DeviceKey(device_id)
        raw_data == st[device_key].fields
        online == Lower(DictGet(raw_data, "online", "false")) = "true"
        id == FieldValue(DictSet(raw_data, "id", device_id), "id")
    IN  CASE outcome = "ConnectionError" -> Fetched("none", NoDevice)
          [] outcome = "TimeoutError" -> Fetched("RuntimeError", NoDevice)
          [] st[device_key].kind = "list" -> Fetched("RuntimeError", NoDevice)
          [] ~DeviceValid(raw_data) -> Fetched("ValidationError", NoDevice)
          [] OTHER -> Fetched("device", Device(raw_data, id, online))

\* a helper that returns None on a ValidationError instead of raising it
get_device_data_from_redis_SwallowsInvalid(st, device_id, outcome) ==
    LET device_key == DeviceKey(device_id)
        raw_data == st[device_key].fields
        online == Lower(DictGet(raw_data, "online", "false")) = "true"
        id == FieldValue(DictSet(raw_data, "id", device_id), "id")
    IN  CASE outcome = "ConnectionError" -> Fetched("none", NoDevice)
          [] outcome = "TimeoutError" -> Fetched("RuntimeError", NoDevice)
          [] st[device_key].kind = "list" -> Fetched("RuntimeError", NoDevice)
          [] raw_data = {} -> Fetched("none", NoDevice)
          [] ~DeviceValid(raw_data) -> Fetched("none", NoDevice)
          [] OTHER -> Fetched("device", Device(raw_data, id, online))

\* a helper that keeps a stored id field (setdefault in place of assignment)
get_device_data_from_redis_KeepsStoredId(st, device_id, outcome) ==
    LET device_key == DeviceKey(device_id)
        raw_data == st[device_key].fields
        online == Lower(DictGet(raw_data, "online", "false")) = "true"
        id == DictGet(raw_data, "id", device_id)
    IN  CASE outcome = "ConnectionError" -> Fetched("none", NoDevice)
          [] outcome = "TimeoutError" -> Fetched("RuntimeError", NoDevice)
          [] st[device_key].kind = "list" -> Fetched("RuntimeError", NoDevice)
          [] raw_data = {} -> Fetched("none", NoDevice)
          [] ~DeviceValid(raw_data) -> Fetched("ValidationError", NoDevice)
          [] OTHER -> Fetched("device", Device(raw_data, id, online))

\* get_device_data_from_redis(r, device_id), the call r.hgetall ending as
\* `outcome` says: tag "device" with the Device returned, "none" for None,
\* or the exception raised
get_device_data_from_redis(st, device_id, outcome) ==
    LET device_key == DeviceKey(device_id)
        raw_data == st[device_key].fields
        online == Lower(DictGet(raw_data, "online", "false")) = "true"
        id == FieldValue(DictSet(raw_data, "id", device_id), "id")
    IN  CASE outcome = "ConnectionError" -> Fetched("none", NoDevice)
          [] outcome = "TimeoutError" -> Fetched("RuntimeError", NoDevice)
          [] st[device_key].kind = "list" -> Fetched("RuntimeError", NoDevice)
          [] raw_data = {} -> Fetched("none", NoDevice)
          [] ~DeviceValid(raw_data) -> Fetched("ValidationError", NoDevice)
          [] OTHER -> Fetched("device", Device(raw_data, id, online))

-----------------------------------------------------------------------------
(* app.py: the command log *)

\* the entry json.dumps writes: {"action", "parameters", "timestamp"}
CommandEntry(action, parameters, timestamp) ==
    [action |-> action, parameters |-> parameters, timestamp |-> timestamp]

Min(a, b) == IF a <= b THEN a ELSE b

\* a push at the tail (RPUSH) instead of the head
LPush_AtTail(items, entry) == items \o <<entry>>

\* LPUSH key value
LPush(items, entry) == <<entry>> \o items

\* LTRIM that keeps one entry past `stop`
LTrim_KeepsOneMore(items, start, stop) ==
    SubSeq(items, start + 1, Min(stop + 2, Len(items)))

\* a trim that keeps the last stop + 1 entries instead of the first
LTrim_KeepsLast(items, start, stop) ==
    SubSeq(items, IF Len(items) > stop + 1 THEN Len(items) - stop ELSE 1,
           Len(items))

\* LTRIM key start stop, for 0 <= start <= stop
LTrim(items, start, stop) == SubSeq(items, start + 1, Min(stop + 1, Len(items)))

\* a transaction that also removes the record of the device it logs for
CommandTransaction_DropsRecord(st, command_history_key, entry) ==
    IF st[command_history_key].kind = "hash" THEN st
    ELSE [st EXCEPT
            ![command_history_key] =
                ListValue(LTrim(LPush(ListItems(st, command_history_key), entry),
                                0, TrimStop)),
            ![SubSeq(command_history_key, 1, Len(command_history_key) - 1)] =
                NoValue]

\* a transaction that logs every command under one key, whatever the device
CommandTransaction_OneSharedList(st, command_history_key, entry) ==
    IF st[CommandsKey(D1)].kind = "hash" THEN st
    ELSE [st EXCEPT ![CommandsKey(D1)] =
            ListValue(LTrim(LPush(ListItems(st, CommandsKey(D1)), entry),
                            0, TrimStop))]

\* the MULTI/EXEC block of send_device_command as the store executes it:
\* lpush(command_history_key, entry), then ltrim(command_history_key, 0, 99),
\* with no other client's command between the two. Both commands answer
\* WRONGTYPE and change nothing when the key holds a hash.
CommandTransaction(st, command_history_key, entry) ==
    IF st[command_history_key].kind = "hash" THEN st
    ELSE [st EXCEPT ![command_history_key] =
            ListValue(LTrim(LPush(ListItems(st, command_history_key), entry),
                            0, TrimStop))]

\* how pipe.execute() ends: the transaction is executed and answered; the
\* connection fails before the store executes it; the store executes it and
\* the connection fails before the answer arrives
ExecuteOutcomes == {"ok", "ConnectionError", "ReplyLost"}

-----------------------------------------------------------------------------
(* The store's SCAN *)

\* the order in which SCAN walks the keyspace
KeyOrder == <<DeviceKey(D1), CommandsKey(D1), DeviceKey(D2), CommandsKey(D2)>>

\* match="device:*"
MatchesDevicePattern(key) == Len(key) >= 2 /\ key[1] = "device"

\* the keys of `keys` (a sequence) that exist and match the pattern
RECURSIVE ExistingMatches(_, _)
ExistingMatches(st, keys) ==
    IF keys = <<>> THEN <<>>
    ELSE (IF st[Head(keys)].kind # "none" /\ MatchesDevicePattern(Head(keys))
          THEN <<Head(keys)>> ELSE <<>>) \o ExistingMatches(st, Tail(keys))

\* SCAN cursor MATCH device:* COUNT 50, the store walking on to position
\* `upto` of the keyspace; with `again` it returns the key before the cursor
\* once more, as SCAN may. The cursor returned is 0 when the walk is complete.
Scan(st, position, upto, again) ==
    [cursor |-> IF upto = Len(KeyOrder) THEN 0 ELSE upto,
     keys |-> ExistingMatches(st,
                  SubSeq(KeyOrder, IF again THEN position ELSE position + 1, upto))]

\* cursor = 0: the int, with which `while cursor != 0` is false at once
StrCursor_IntZero == [type |-> "int", val |-> 0]

\* cursor = '0': a str, which is never equal to the int 0
StrCursor == [type |-> "str", val |-> 0]

IntCursor(n) == [type |-> "int", val |-> n]

-----------------------------------------------------------------------------
(* app.py: the requests *)

Slots == 1 .. NumRequests

IdleRequest ==
    [pc |-> "idle", kind |-> "none", id |-> <<>>, body |-> Body(Absent, Absent),
     raw |-> {}, fault |-> "ok", time |-> 0, status |-> 0,
     device |-> NoDevice, receipt |-> NoReceipt,
     cursor |-> StrCursor, device_ids |-> <<>>, devices_out |-> <<>>,
     application_status |-> "", redis_status |-> "",
     client |-> "none", releases |-> 0]

\* request 1 is any request; the others are the commands that arrive while it
\* is served, numbered in the order they arrive
MayArrive(s) ==
    /\ lifespan = "serving"
    /\ req[s].pc = "idle"
    /\ IF s <= 2 THEN TRUE ELSE req[s - 1].pc # "idle"

\* the bodies request s may carry: only a valid command reaches the store
BodiesOf(s) == IF s = 1 THEN Bodies ELSE ValidBodies

\* the calls of request 1 are the ones the store may fail
FetchOutcomesOf(s) == IF s = 1 THEN StoreOutcomes ELSE {"ok"}

ExecuteOutcomesOf(s) == IF s = 1 THEN ExecuteOutcomes ELSE {"ok"}

\* an initialisation without the `is None` test: it builds a pool whatever
\* the global holds, and leaves None when that fails
initialize_redis_pool_NoNoneTest(redis_connection_pool, outcome) ==
    IF outcome = "ok" THEN "ready" ELSE "unset"

\* initialize_redis_pool: the value of the global redis_connection_pool after
\* the call, from_url and the test ping ending as `outcome` says; on failure
\* the global is set back to None and the exception raised
initialize_redis_pool(redis_connection_pool, outcome) ==
    IF redis_connection_pool = "unset"
    THEN (IF outcome = "ok" THEN "ready" ELSE "unset")
    ELSE redis_connection_pool

\* lifespan, up to its yield: initialize_redis_pool is awaited, an exception
\* it raises is logged and dropped, and the app starts serving
lifespan_startup(outcome) ==
    /\ lifespan = "startup"
    /\ pool' = initialize_redis_pool(pool, outcome)
    /\ lifespan' = "serving"
    /\ UNCHANGED <<store, now, seeded, req>>

\* get_redis_connection yields a client unless the pool is None
get_redis_connection == pool = "ready"

\* get_redis_connection: r_client = redis.Redis(connection_pool=...) and the
\* yield, when the pool is there
Depends(r) == IF get_redis_connection THEN [r EXCEPT !.client = "open"] ELSE r

\* a teardown that closes the client only when the handler returned normally
get_redis_connection_finally_OnSuccessOnly(r) ==
    IF r.pc = "done" /\ r.client # "none" /\ r.status = 200
    THEN [r EXCEPT !.client = "closed", !.releases = @ + 1] ELSE r

\* get_redis_connection: the finally clause, run once the handler has
\* returned or raised: `if 'r_client' in locals() and r_client` then aclose()
get_redis_connection_finally(r) ==
    IF r.pc = "done" /\ r.client # "none"
    THEN [r EXCEPT !.client = "closed", !.releases = @ + 1] ELSE r

\* the requests after a step of the handler of request s: when the step
\* answered the request, the dependency is torn down
Exit(s, requests) ==
    [requests EXCEPT ![s] = get_redis_connection_finally(requests[s])]

\* the connections borrowed from the pool: a client borrows one for each
\* command it sends and holds it until the reply has come
InUseConnections ==
    Cardinality({s \in DOMAIN req :
                    req[s].pc \in {"fetch", "execute", "scan", "ping"}})

\* ConnectionPool.from_url(..., max_connections=...): the pool does not wait
\* for a connection; with max_connections in use, the command raises
\* ConnectionError
PoolExhausted == InUseConnections >= REDIS_MAX_CONNECTIONS

\* raise HTTPException(status_code): the request is answered
Raise(r, status_code) == [r EXCEPT !.pc = "done", !.status = status_code]

\* send_device_command: the checks of what get_device_data_from_redis gave
send_device_command_checks(r, device) ==
    CASE device.tag = "none" -> Raise(r, HTTP_404_NOT_FOUND)
      [] device.tag \in {"ValidationError", "RuntimeError"} ->
            Raise(r, HTTP_500_INTERNAL_SERVER_ERROR)
      [] ~device.device.online -> Raise(r, HTTP_400_BAD_REQUEST)
      [] OTHER -> [r EXCEPT !.pc = "stamp"]

\* POST /devices/{device_id}/command arrives: the dependency, then
\* CommandPayload(**command), then hgetall is sent, unless the pool has no
\* connection for it
send_device_command_begin(s, device_id, command) ==
    /\ MayArrive(s)
    /\ LET r == Depends([IdleRequest EXCEPT !.kind = "command", !.id = device_id,
                                    !.body = command])
       IN  req' = Exit(s, [req EXCEPT ![s] =
                IF ~get_redis_connection
                THEN Raise(r, HTTP_503_SERVICE_UNAVAILABLE)
                ELSE IF ~CommandPayloadValid(command)
                THEN Raise(r, HTTP_400_BAD_REQUEST)
                ELSE IF PoolExhausted
                THEN send_device_command_checks(
                        [r EXCEPT !.fault = "ConnectionError"],
                        get_device_data_from_redis(store, device_id,
                                                   "ConnectionError"))
                ELSE [r EXCEPT !.pc = "fetch"]])
    /\ UNCHANGED <<lifespan, pool, store, now, seeded>>

\* a handler that keeps the records it read: it decides from the record an
\* earlier request read for the same device, when there is one
send_device_command_fetch_UsesCached(s, outcome) ==
    /\ req[s].pc = "fetch"
    /\ req[s].kind = "command"
    /\ LET hits == {t \in DOMAIN req : /\ req[t].id = req[s].id
                                       /\ req[t].pc # "fetch"
                                       /\ req[t].raw # {}}
           cached == IF hits = {} THEN store
                     ELSE [store EXCEPT ![DeviceKey(req[s].id)] =
                            HashValue(req[CHOOSE t \in hits : TRUE].raw)]
           device == get_device_data_from_redis(cached, req[s].id, outcome)
           r == [req[s] EXCEPT !.fault = outcome,
                               !.raw = cached[DeviceKey(req[s].id)].fields]
       IN  req' = Exit(s, [req EXCEPT ![s] = send_device_command_checks(r, device)])
    /\ UNCHANGED <<lifespan, pool, store, now, seeded>>

\* send_device_command: get_device_data_from_redis and the checks of its result
send_device_command_fetch(s, outcome) ==
    /\ req[s].pc = "fetch"
    /\ req[s].kind = "command"
    /\ LET device == get_device_data_from_redis(store, req[s].id, outcome)
           r == [req[s] EXCEPT !.fault = outcome,
                               !.raw = IF outcome = "ok"
                                       THEN store[DeviceKey(req[s].id)].fields
                                       ELSE {}]
       IN  req' = Exit(s, [req EXCEPT ![s] = send_device_command_checks(r, device)])
    /\ UNCHANGED <<lifespan, pool, store, now, seeded>>

\* send_device_command: current_time = datetime.now(timezone.utc), and the
\* pipeline is sent, unless the pool has no connection for it; the clock moves
\* on between two reads
send_device_command_stamp(s) ==
    /\ req[s].pc = "stamp"
    /\ LET r == [req[s] EXCEPT !.time = now]
       IN  req' = Exit(s, [req EXCEPT ![s] =
                IF PoolExhausted
                THEN Raise([r EXCEPT !.fault = "ConnectionError"],
                           HTTP_503_SERVICE_UNAVAILABLE)
                ELSE [r EXCEPT !.pc = "execute"]])
    /\ now' = now + 1
    /\ UNCHANGED <<lifespan, pool, store, seeded>>

\* an execute step that answers 200 whether or not the transaction reached
\* the store
send_device_command_execute_IgnoresFailure(s, outcome) ==
    /\ req[s].pc = "execute"
    /\ LET parsed_command == CommandPayload(req[s].body)
           command_history_key == CommandsKey(req[s].id)
           command_to_log == CommandEntry(parsed_command.action,
                                          parsed_command.parameters, req[s].time)
           r == [req[s] EXCEPT !.fault = outcome]
       IN  /\ store' = IF outcome = "ConnectionError" THEN store
                       ELSE CommandTransaction(store, command_history_key,
                                               command_to_log)
           /\ req' = Exit(s, [req EXCEPT ![s] =
                [r EXCEPT !.pc = "done", !.status = HTTP_200_OK,
                          !.receipt = CommandResponse(req[s].id,
                                parsed_command.action, req[s].time)]])
    /\ UNCHANGED <<lifespan, pool, now, seeded>>

\* send_device_command: the pipeline's execute() and the receipt
send_device_command_execute(s, outcome) ==
    /\ req[s].pc = "execute"
    /\ LET parsed_command == CommandPayload(req[s].body)
           command_history_key == CommandsKey(req[s].id)
           command_to_log == CommandEntry(parsed_command.action,
                                          parsed_command.parameters, req[s].time)
           wrongtype == store[command_history_key].kind = "hash"
           r == [req[s] EXCEPT !.fault = outcome]
       IN  /\ store' = IF outcome = "ConnectionError" THEN store
                       ELSE CommandTransaction(store, command_history_key,
                                               command_to_log)
           /\ req' = Exit(s, [req EXCEPT ![s] =
                IF outcome # "ok" \/ wrongtype
                THEN Raise(r, HTTP_503_SERVICE_UNAVAILABLE)
                ELSE [r EXCEPT !.pc = "done", !.status = HTTP_200_OK,
                               !.receipt = CommandResponse(req[s].id,
                                    parsed_command.action, req[s].time)]])
    /\ UNCHANGED <<lifespan, pool, now, seeded>>

\* get_specific_device: the answer to what get_device_data_from_redis gave
get_specific_device_answer(r, device) ==
    CASE device.tag = "none" -> Raise(r, HTTP_404_NOT_FOUND)
      [] device.tag \in {"ValidationError", "RuntimeError"} ->
            Raise(r, HTTP_500_INTERNAL_SERVER_ERROR)
      [] OTHER -> [r EXCEPT !.pc = "done", !.status = HTTP_200_OK,
                            !.device = device.device]

\* GET /devices/{device_id} arrives: the dependency, then hgetall is sent,
\* unless the pool has no connection for it
get_specific_device_begin(s, device_id) ==
    /\ MayArrive(s)
    /\ LET r == Depends([IdleRequest EXCEPT !.kind = "get", !.id = device_id])
       IN  req' = Exit(s, [req EXCEPT ![s] =
                IF ~get_redis_connection
                THEN Raise(r, HTTP_503_SERVICE_UNAVAILABLE)
                ELSE IF PoolExhausted
                THEN get_specific_device_answer(
                        [r EXCEPT !.fault = "ConnectionError"],
                        get_device_data_from_redis(store, device_id,
                                                   "ConnectionError"))
                ELSE [r EXCEPT !.pc = "fetch"]])
    /\ UNCHANGED <<lifespan, pool, store, now, seeded>>

\* get_specific_device: get_device_data_from_redis and the answer
get_specific_device(s, outcome) ==
    /\ req[s].pc = "fetch"
    /\ req[s].kind = "get"
    /\ LET device == get_device_data_from_redis(store, req[s].id, outcome)
           r == [req[s] EXCEPT !.fault = outcome,
                               !.raw = IF outcome = "ok"
                                       THEN store[DeviceKey(req[s].id)].fields
                                       ELSE {}]
       IN  req' = Exit(s, [req EXCEPT ![s] = get_specific_device_answer(r, device)])
    /\ UNCHANGED <<lifespan, pool, store, now, seeded>>

\* key.endswith(":commands")
EndsWithCommands(key) == Len(key) >= 2 /\ key[Len(key)] = "commands"

\* the loop over the keys without the test of the suffix: every key gives an id
RECURSIVE IdsOfKeys_KeepsCommandKeys(_)
IdsOfKeys_KeepsCommandKeys(keys) ==
    IF keys = <<>> THEN <<>>
    ELSE (IF Len(Head(keys)) >= 2 THEN <<Tail(Head(keys))>> ELSE <<>>)
            \o IdsOfKeys_KeepsCommandKeys(Tail(keys))

\* the for loop over the keys of one scan call: the ids appended to device_ids
RECURSIVE IdsOfKeys(_)
IdsOfKeys(keys) ==
    IF keys = <<>> THEN <<>>
    ELSE (IF ~EndsWithCommands(Head(keys)) /\ Len(Head(keys)) >= 2
          THEN <<Tail(Head(keys))>> ELSE <<>>) \o IdsOfKeys(Tail(keys))

\* the ids a key of the store can give (what follows "device:"), in ascending
\* order of their text: "d1" < "d1:commands" < "d2" < "d2:commands"
IdOrder == <<D1, D1 \o <<"commands">>, D2, D2 \o <<"commands">>>>

Elements(seq) == {seq[i] : i \in 1 .. Len(seq)}

\* sorted(device_ids), without the set: an id scanned twice stays twice
SortedUnique_KeepsDuplicates(device_ids) ==
    LET Only(k) == SelectSeq(device_ids, LAMBDA i : i = IdOrder[k])
    IN  Only(1) \o Only(2) \o Only(3) \o Only(4)

\* sorted(list(set(device_ids)))
SortedUnique(device_ids) ==
    LET IsListed(i) == i \in Elements(device_ids)
    IN  SelectSeq(IdOrder, IsListed)

\* GET /devices arrives: the dependency, then the first scan is sent, unless
\* the pool has no connection for it; from then on each reply frees the
\* connection that the next call of the loops borrows
list_all_devices_begin(s) ==
    /\ MayArrive(s)
    /\ LET r == Depends([IdleRequest EXCEPT !.kind = "list"])
       IN  req' = Exit(s, [req EXCEPT ![s] =
                IF ~get_redis_connection
                THEN Raise(r, HTTP_503_SERVICE_UNAVAILABLE)
                ELSE IF PoolExhausted
                THEN Raise([r EXCEPT !.fault = "ConnectionError"],
                           HTTP_503_SERVICE_UNAVAILABLE)
                ELSE [r EXCEPT !.pc = "scan"]])
    /\ UNCHANGED <<lifespan, pool, store, now, seeded>>

\* list_all_devices: one pass of `while cursor != 0`: a scan call and the
\* loop over its keys; after the last pass, unique_device_ids
list_all_devices_scan(s, upto, again, outcome) ==
    /\ req[s].pc = "scan"
    /\ req[s].cursor # IntCursor(0)
    /\ upto \in (req[s].cursor.val + 1) .. Len(KeyOrder)
    /\ again => req[s].cursor.val >= 1
    /\ LET got == Scan(store, req[s].cursor.val, upto, again)
           device_ids == req[s].device_ids \o IdsOfKeys(got.keys)
           unique_device_ids == SortedUnique(device_ids)
           r == [req[s] EXCEPT !.fault = outcome]
       IN  req' = Exit(s, [req EXCEPT ![s] =
                IF outcome # "ok" THEN Raise(r, HTTP_503_SERVICE_UNAVAILABLE)
                ELSE IF got.cursor # 0
                THEN [r EXCEPT !.cursor = IntCursor(got.cursor),
                               !.device_ids = device_ids]
                ELSE IF unique_device_ids = <<>>
                THEN [r EXCEPT !.pc = "done", !.status = HTTP_200_OK,
                               !.cursor = IntCursor(0), !.device_ids = <<>>]
                ELSE [r EXCEPT !.pc = "fetch", !.cursor = IntCursor(0),
                               !.device_ids = unique_device_ids]])
    /\ UNCHANGED <<lifespan, pool, store, now, seeded>>

\* the loop without the `if device_data` test: what the helper returned is
\* appended also when it is None
list_all_devices_fetch_NoNoneTest(s, outcome) ==
    /\ req[s].pc = "fetch"
    /\ req[s].kind = "list"
    /\ LET device_id_str == Head(req[s].device_ids)
           device_data == get_device_data_from_redis(store, device_id_str, outcome)
           r == [req[s] EXCEPT !.fault = IF req[s].fault = "ok" THEN outcome
                                         ELSE req[s].fault,
                               !.device_ids = Tail(req[s].device_ids)]
           devices_out == Append(req[s].devices_out, device_data.device)
       IN  req' = Exit(s, [req EXCEPT ![s] =
                IF device_data.tag \in {"ValidationError", "RuntimeError"}
                THEN Raise(r, HTTP_500_INTERNAL_SERVER_ERROR)
                ELSE IF r.device_ids = <<>>
                THEN [r EXCEPT !.pc = "done", !.status = HTTP_200_OK,
                               !.devices_out = devices_out]
                ELSE [r EXCEPT !.devices_out = devices_out]])
    /\ UNCHANGED <<lifespan, pool, store, now, seeded>>

\* list_all_devices: one pass of `for device_id_str in unique_device_ids`
list_all_devices_fetch(s, outcome) ==
    /\ req[s].pc = "fetch"
    /\ req[s].kind = "list"
    /\ LET device_id_str == Head(req[s].device_ids)
           device_data == get_device_data_from_redis(store, device_id_str, outcome)
           r == [req[s] EXCEPT !.fault = IF req[s].fault = "ok" THEN outcome
                                         ELSE req[s].fault,
                               !.device_ids = Tail(req[s].device_ids)]
           devices_out == IF device_data.tag = "device"
                          THEN Append(req[s].devices_out, device_data.device)
                          ELSE req[s].devices_out
       IN  req' = Exit(s, [req EXCEPT ![s] =
                IF device_data.tag \in {"ValidationError", "RuntimeError"}
                THEN Raise(r, HTTP_500_INTERNAL_SERVER_ERROR)
                ELSE IF r.device_ids = <<>>
                THEN [r EXCEPT !.pc = "done", !.status = HTTP_200_OK,
                               !.devices_out = devices_out]
                ELSE [r EXCEPT !.devices_out = devices_out]])
    /\ UNCHANGED <<lifespan, pool, store, now, seeded>>

\* health_check: the body returned, with the timestamp read on return
health_check_body(r, redis_status) ==
    [r EXCEPT !.pc = "done", !.status = HTTP_200_OK,
              !.application_status = "healthy",
              !.redis_status = redis_status, !.time = now]

\* GET /health arrives: the dependency, then `if r:` and the ping is sent,
\* unless the pool has no connection for it (a ConnectionError, which is a
\* RedisError)
health_check_begin(s) ==
    /\ MayArrive(s)
    /\ LET r == Depends([IdleRequest EXCEPT !.kind = "health"])
       IN  IF ~get_redis_connection
           THEN /\ req' = Exit(s, [req EXCEPT ![s] = Raise(r, HTTP_503_SERVICE_UNAVAILABLE)])
                /\ now' = now
           ELSE IF PoolExhausted
           THEN /\ req' = Exit(s, [req EXCEPT ![s] =
                        health_check_body([r EXCEPT !.fault = "ConnectionError"],
                                          "unhealthy")])
                /\ now' = now + 1
           ELSE /\ req' = Exit(s, [req EXCEPT ![s] = [r EXCEPT !.pc = "ping"]])
                /\ now' = now
    /\ UNCHANGED <<lifespan, pool, store, seeded>>

\* health_check: the reply of r.ping(), or the RedisError it raises, and the
\* body returned
health_check(s, outcome) ==
    /\ req[s].pc = "ping"
    /\ req' = Exit(s, [req EXCEPT ![s] =
            health_check_body([req[s] EXCEPT !.fault = outcome],
                              IF outcome = "ok" THEN "healthy" ELSE "unhealthy")])
    /\ now' = now + 1
    /\ UNCHANGED <<lifespan, pool, store, seeded>>

-----------------------------------------------------------------------------
(* The external actors: they write the device records directly in the store *)

\* HSET device:<id> field value: the field is set, the hash created when the
\* key is not there
external_hset(device_id, f, value) ==
    /\ store[DeviceKey(device_id)].kind # "list"
    /\ store' = [store EXCEPT ![DeviceKey(device_id)] =
                    HashValue(DictSet(store[DeviceKey(device_id)].fields, f, value))]
    /\ UNCHANGED <<lifespan, pool, now, seeded, req>>

\* DEL device:<id>
external_delete(device_id) ==
    /\ store[DeviceKey(device_id)].kind = "hash"
    /\ store' = [store EXCEPT ![DeviceKey(device_id)] = NoValue]
    /\ UNCHANGED <<lifespan, pool, now, seeded, req>>

-----------------------------------------------------------------------------
(* The specification *)

\* the command list of a device that logged n commands, one per clock value
SeededItems(n) == [i \in 1 .. n |-> CommandEntry("old", "{}", n - i + 1)]

\* after startup (lifespan): the pool is initialised or, when that failed, left
\* None; D1 holds one of `records` or no record, and a command list of its
\* `seeded` earlier commands; D2 is online with no commands yet; the requests
\* of `slots` are to come
InitWith(pools, records, seeds, slots) ==
    /\ lifespan = "serving"
    /\ pool \in pools
    /\ seeded \in seeds
    /\ \E v \in records :
            store = [k \in Keys |->
                CASE k = DeviceKey(D1) -> v
                  [] k = DeviceKey(D2) -> HashValue(OnlineRecord)
                  [] k = CommandsKey(D1) -> ListValue(SeededItems(seeded))
                  [] OTHER -> NoValue]
    /\ now = ClockStart
    /\ req = [s \in slots |-> IdleRequest]

\* Spec: a request of any kind and body on any stored record, among concurrent
\* valid commands
Init ==
    InitWith({"ready", "unset"},
             {HashValue(f) : f \in StoredRecords} \cup {NoValue}, {0, 1}, Slots)

Next ==
    \/ \E s \in Slots : \E i \in DeviceIds, c \in BodiesOf(s) :
            send_device_command_begin(s, i, c)
    \/ \E s \in Slots : \E o \in FetchOutcomesOf(s) : send_device_command_fetch(s, o)
    \/ \E s \in Slots : send_device_command_stamp(s)
    \/ \E s \in Slots : \E o \in ExecuteOutcomesOf(s) : send_device_command_execute(s, o)
    \/ \E i \in DeviceIds : get_specific_device_begin(1, i)
    \/ \E o \in StoreOutcomes : get_specific_device(1, o)

Spec == Init /\ [][Next]_vars

\* LogSpec: concurrent valid commands to online devices, the list of D1 empty
\* or one entry short of the limit
LogInit ==
    InitWith({"ready"}, {HashValue(UpperRecord)}, {0, HistoryLimit - 1}, Slots)

LogNext ==
    \/ \E s \in Slots, i \in DeviceIds, c \in ValidBodies : send_device_command_begin(s, i, c)
    \/ \E s \in Slots : send_device_command_fetch(s, "ok")
    \/ \E s \in Slots : send_device_command_stamp(s)
    \/ \E s \in Slots, o \in ExecuteOutcomes : send_device_command_execute(s, o)

LogSpec == LogInit /\ [][LogNext]_vars

\* PoolSpec: a burst of one command more than the pool has connections, sent
\* to an online device; the store answers every call, in the order the requests
\* arrived; all go to D1
Burst == REDIS_MAX_CONNECTIONS + 1

PoolInit ==
    InitWith({"ready"}, {HashValue(OnlineRecord)}, {0}, 1 .. Burst)

\* every request that arrived before request s is answered
Turn(s) == \A t \in 1 .. (s - 1) : req[t].pc = "done"

PoolNext ==
    \/ \E s \in 1 .. Burst :
            send_device_command_begin(s, D1, Body(JStr("toggle"), Absent))
    \/ \E s \in 1 .. Burst : Turn(s) /\ send_device_command_fetch(s, "ok")
    \/ \E s \in 1 .. Burst : Turn(s) /\ send_device_command_stamp(s)
    \/ \E s \in 1 .. Burst : Turn(s) /\ send_device_command_execute(s, "ok")

PoolSpec == PoolInit /\ [][PoolNext]_vars

\* ApiSpec: request 1 is a request to any endpoint of the service, among
\* concurrent valid commands
ApiNext ==
    \/ Next
    \/ list_all_devices_begin(1)
    \/ \E upto \in 1 .. Len(KeyOrder), again \in BOOLEAN, o \in StoreOutcomes :
            list_all_devices_scan(1, upto, again, o)
    \/ \E o \in StoreOutcomes : list_all_devices_fetch(1, o)
    \/ health_check_begin(1)
    \/ \E o \in StoreOutcomes : health_check(1, o)

ApiSpec == Init /\ [][ApiNext]_vars

\* ExtSpec: request 1 is a GET of a device, a listing or a command, among
\* concurrent valid commands, while an external actor sets the online field
\* of D1 and deletes its record; the store answers every call
ExtInit ==
    InitWith({"ready"},
             {HashValue(OnlineRecord), HashValue(OfflineRecord), NoValue},
             {0}, Slots)

ExtNext ==
    \/ \E s \in Slots : \E i \in DeviceIds :
            send_device_command_begin(s, i, Body(JStr("toggle"), Absent))
    \/ \E s \in Slots : send_device_command_fetch(s, "ok")
    \/ \E s \in Slots : send_device_command_stamp(s)
    \/ \E s \in Slots : send_device_command_execute(s, "ok")
    \/ \E i \in DeviceIds : get_specific_device_begin(1, i)
    \/ get_specific_device(1, "ok")
    \/ list_all_devices_begin(1)
    \/ \E upto \in 1 .. Len(KeyOrder), again \in BOOLEAN :
            list_all_devices_scan(1, upto, again, "ok")
    \/ list_all_devices_fetch(1, "ok")
    \/ \E value \in {"true", "false"} : external_hset(D1, "online", value)
    \/ external_delete(D1)

ExtSpec == ExtInit /\ [][ExtNext]_vars

\* BootSpec: the app starts, the global pool None (a fresh process) or left
\* by an earlier run of lifespan in the process (its shutdown disconnects the
\* pool and keeps the global); then request 1 is a GET of a device, a listing
\* or a command, among concurrent valid commands; the store answers every
\* call of a request
BootInit ==
    /\ lifespan = "startup"
    /\ pool \in {"unset", "ready"}
    /\ seeded = 0
    /\ store = [k \in Keys |->
                IF k \in {DeviceKey(D1), DeviceKey(D2)}
                THEN HashValue(OnlineRecord) ELSE NoValue]
    /\ now = ClockStart
    /\ req = [s \in Slots |-> IdleRequest]

BootNext ==
    \/ \E o \in StoreOutcomes : lifespan_startup(o)
    \/ \E s \in Slots : \E i \in DeviceIds :
            send_device_command_begin(s, i, Body(JStr("toggle"), Absent))
    \/ \E s \in Slots : send_device_command_fetch(s, "ok")
    \/ \E s \in Slots : send_device_command_stamp(s)
    \/ \E s \in Slots : send_device_command_execute(s, "ok")
    \/ \E i \in DeviceIds : get_specific_device_begin(1, i)
    \/ get_specific_device(1, "ok")
    \/ list_all_devices_begin(1)
    \/ \E upto \in 1 .. Len(KeyOrder), again \in BOOLEAN :
            list_all_devices_scan(1, upto, again, "ok")
    \/ list_all_devices_fetch(1, "ok")

BootSpec == BootInit /\ [][BootNext]_vars

\* DirSpec: GET /devices (request 1) on any stored record of D1, among
\* concurrent valid commands
DirInit ==
    InitWith({"ready", "unset"},
             {HashValue(f) : f \in StoredRecords} \cup {NoValue}, {0, 1}, Slots)

DirNext ==
    \/ list_all_devices_begin(1)
    \/ \E upto \in 1 .. Len(KeyOrder), again \in BOOLEAN, o \in StoreOutcomes :
            list_all_devices_scan(1, upto, again, o)
    \/ \E o \in StoreOutcomes : list_all_devices_fetch(1, o)
    \/ \E s \in Slots \ {1} : \E i \in DeviceIds, c \in ValidBodies :
            send_device_command_begin(s, i, c)
    \/ \E s \in Slots : send_device_command_fetch(s, "ok")
    \/ \E s \in Slots : send_device_command_stamp(s)
    \/ \E s \in Slots : send_device_command_execute(s, "ok")

DirSpec == DirInit /\ [][DirNext]_vars

\* ListSpec: GET /devices (request 1) on a store where each device has a record
\* or none, the empty store included, among concurrent valid commands
ListInit ==
    /\ lifespan = "serving"
    /\ pool = "ready"
    /\ seeded \in {0, 1}
    /\ \E v \in {HashValue(f) : f \in StoredRecords} \cup {NoValue},
          w \in {HashValue(OfflineRecord), HashValue(UpperRecord), NoValue} :
            store = [k \in Keys |->
                CASE k = DeviceKey(D1) -> v
                  [] k = DeviceKey(D2) -> w
                  [] k = CommandsKey(D1) -> ListValue(SeededItems(seeded))
                  [] OTHER -> NoValue]
    /\ now = ClockStart
    /\ req = [s \in Slots |-> IdleRequest]

ListSpec == ListInit /\ [][DirNext]_vars

\* ScanSpec: GET /devices (request 1) among concurrent valid commands, each
\* device with a valid record or none, the store answering (or failing) every
\* call the listing has issued: the handler goes on when the reply arrives
ScanInit ==
    /\ lifespan = "serving"
    /\ pool = "ready"
    /\ seeded \in {0, 1}
    /\ \E v \in {HashValue(OnlineRecord), NoValue},
          w \in {HashValue(OfflineRecord), NoValue} :
            store = [k \in Keys |->
                CASE k = DeviceKey(D1) -> v
                  [] k = DeviceKey(D2) -> w
                  [] k = CommandsKey(D1) -> ListValue(SeededItems(seeded))
                  [] OTHER -> NoValue]
    /\ now = ClockStart
    /\ req = [s \in Slots |-> IdleRequest]

ScanSpec ==
    /\ ScanInit
    /\ [][DirNext]_vars
    /\ WF_vars(\E upto \in 1 .. Len(KeyOrder), again \in BOOLEAN, o \in StoreOutcomes :
                    list_all_devices_scan(1, upto, again, o))
    /\ WF_vars(\E o \in StoreOutcomes : list_all_devices_fetch(1, o))

\* IdsSpec: GET /devices as request 1 and GET /devices/{id} as request 2, for
\* any id a key of the store can give, on a store that holds only valid
\* records and does not change, the store answering every call; the key
\* device:d1:commands holds the command list of d1 or the record of a device
\* whose id is "d1:commands"
IdsInit ==
    /\ lifespan = "serving"
    /\ pool = "ready"
    /\ seeded \in {0, 1}
    /\ \E v \in {HashValue(f) : f \in {g \in StoredRecords : DeviceValid(g)}}
                    \cup {NoValue},
          w \in {HashValue(OfflineRecord), NoValue},
          c \in {ListValue(SeededItems(seeded)), HashValue(OnlineRecord)} :
            store = [k \in Keys |->
                CASE k = DeviceKey(D1) -> v
                  [] k = DeviceKey(D2) -> w
                  [] k = CommandsKey(D1) -> c
                  [] OTHER -> NoValue]
    /\ now = ClockStart
    /\ req = [s \in Slots |-> IdleRequest]

IdsNext ==
    \/ list_all_devices_begin(1)
    \/ \E upto \in 1 .. Len(KeyOrder), again \in BOOLEAN :
            list_all_devices_scan(1, upto, again, "ok")
    \/ list_all_devices_fetch(1, "ok")
    \/ \E i \in Elements(IdOrder) : get_specific_device_begin(2, i)
    \/ get_specific_device(2, "ok")

IdsSpec == IdsInit /\ [][IdsNext]_vars

-----------------------------------------------------------------------------
(* The claims *)

\* the command list of a device, as LRANGE device:<id>:commands 0 -1 returns it
Commands(device_id) == ListItems(store, CommandsKey(device_id))

\* the requests that were commands to a device
CommandsTo(device_id) ==
    {s \in Slots : req[s].kind = "command" /\ req[s].id = device_id}

\* C1: in every reachable state, whatever the interleaving of the concurrent
\* commands, every list device:<id>:commands holds at most 100 entries: no
\* state shows a prepend without its trim (a list of 101 entries).
C1_ListNeverExceedsLimit ==
    \A i \in DeviceIds : Len(Commands(i)) <= 100

\* C1 witness: a list that was one short of the limit took two commands and
\* holds exactly 100 entries, the newest at its head.
C1_Witness ==
    /\ seeded = 99
    /\ Cardinality({s \in CommandsTo(D1) : req[s].status = 200}) >= 2
    /\ Len(Commands(D1)) = 100
    /\ Commands(D1)[1].action # "old"

\* C2: with the store answering every call, the concurrent valid commands to
\* online devices are all answered 200, none rejected because of the others,
\* and once all are answered each list, empty at first, holds min(N, 100)
\* entries for the N commands sent to its device.
C2_AllAcceptedAndCounted ==
    (\A s \in DOMAIN req : req[s].pc = "done")
        => /\ \A s \in DOMAIN req : req[s].status = 200
           /\ \A i \in DeviceIds :
                Len(Commands(i)) =
                    Min(Cardinality({s \in DOMAIN req : req[s].id = i}), 100)

\* the record stored for a device, the empty mapping when there is none
Stored(device_id) == store[DeviceKey(device_id)].fields

\* a stored record that has name and type
HasNameAndType(fields) ==
    /\ \E p \in fields : p[1] = "name"
    /\ \E p \in fields : p[1] = "type"

\* a stored record whose online field lower-cases to "true"
StoredOnline(fields) ==
    \E p \in fields : p[1] = "online" /\ p[2] \in {"true", "True", "TRUE"}

\* request s takes the step in which its handler fetches the device record,
\* and the store answers the fetch
FetchStep(s, kind) ==
    /\ req[s].pc = "fetch"
    /\ req[s].kind = kind
    /\ req'[s] # req[s]
    /\ req'[s].fault = "ok"

\* C3: a valid command to a device whose stored record is not online (online
\* is "false", any value that does not lower-case to "true", or absent) is
\* answered 400 at the fetch the store answers, and the step changes no key
\* of the store: the command list stays as it was, absent when it was absent.
C3_OfflineRejectedNoWrite ==
    [][\A s \in Slots :
        (/\ FetchStep(s, "command")
         /\ HasNameAndType(Stored(req[s].id))
         /\ ~StoredOnline(Stored(req[s].id)))
        => /\ req'[s].pc = "done"
           /\ req'[s].status = 400
           /\ store' = store]_vars

\* C3 witness: a command to a device whose online field is "yes", answered
\* 400, its command list absent.
C3_Witness ==
    \E s \in Slots :
        /\ req[s].kind = "command" /\ req[s].pc = "done"
        /\ req[s].raw = YesRecord
        /\ req[s].status = 400
        /\ Commands(req[s].id) = <<>>

\* C4: a valid command for an id that has no stored record is answered 404
\* at the fetch the store answers, and the step neither creates nor changes
\* the list device:<id>:commands (nor any other key).
C4_AbsentDevice404NoWrite ==
    [][\A s \in Slots :
        (/\ FetchStep(s, "command")
         /\ store[DeviceKey(req[s].id)].kind = "none")
        => /\ req'[s].pc = "done"
           /\ req'[s].status = 404
           /\ store' = store]_vars

\* C4 witness: a command for an id without a record, answered 404 by a
\* fetch the store answered; no command list exists for the id.
C4_Witness ==
    \E s \in Slots :
        /\ req[s].kind = "command" /\ req[s].pc = "done" /\ req[s].fault = "ok"
        /\ store[DeviceKey(req[s].id)].kind = "none"
        /\ req[s].status = 404
        /\ store[CommandsKey(req[s].id)].kind = "none"

\* a body whose action is missing, null or not a string, or whose parameters
\* is present and not a mapping
BodyMalformed(body) ==
    \/ body.action.type \in {"absent", "null", "int"}
    \/ body.parameters.type \in {"null", "int", "string"}

\* C5: once the request has its store client (the pool is initialised), a
\* command whose body is malformed is answered 400 in the step it arrives
\* in, whatever record the target device has; the step reads and changes no
\* key of the store.
C5_MalformedBody400 ==
    [][\A s \in Slots :
        (/\ req[s].pc = "idle"
         /\ req'[s].kind = "command"
         /\ pool = "ready"
         /\ BodyMalformed(req'[s].body))
        => /\ req'[s].pc = "done"
           /\ req'[s].status = 400
           /\ req'[s].raw = {}
           /\ store' = store]_vars

\* C5 witness: a command without action to an online device, answered 400.
C5_Witness ==
    \E s \in Slots :
        /\ req[s].kind = "command" /\ req[s].pc = "done"
        /\ req[s].body.action.type = "absent"
        /\ StoredOnline(Stored(req[s].id))
        /\ req[s].status = 400

\* the first n entries of a list
FirstEntries(items, n) == [i \in 1 .. (IF Len(items) <= n THEN Len(items) ELSE n) |-> items[i]]

\* the entry a command's request asks to log, with the timestamp t
RequestedEntry(body, t) ==
    [action |-> body.action.val,
     parameters |-> IF body.parameters.type = "absent" THEN "{}"
                    ELSE body.parameters.val,
     timestamp |-> t]

\* C6: a valid command to an existing online device is not rejected at the
\* fetch; when the store executes and answers its transaction it is answered
\* 200 with a receipt whose device_id and action_performed are the request's,
\* and the step prepends exactly one entry to device:<id>:commands (the list
\* cut to its first 100): the entry has the request's action and parameters
\* (the empty mapping when omitted) and the receipt's timestamp. No other key
\* changes.
C6_AcceptedCommandLogged ==
    [][\A s \in Slots :
        /\ (/\ FetchStep(s, "command")
            /\ HasNameAndType(Stored(req[s].id))
            /\ StoredOnline(Stored(req[s].id)))
           => req'[s].pc = "stamp"
        /\ (/\ req[s].pc = "execute"
            /\ req'[s] # req[s]
            /\ req'[s].fault = "ok")
           => /\ req'[s].pc = "done"
              /\ req'[s].status = 200
              /\ req'[s].receipt.device_id = req[s].id
              /\ req'[s].receipt.action_performed = req[s].body.action.val
              /\ store' = [store EXCEPT ![CommandsKey(req[s].id)] =
                    [kind |-> "list", fields |-> {},
                     items |-> FirstEntries(
                        <<RequestedEntry(req[s].body, req'[s].receipt.timestamp)>>
                            \o Commands(req[s].id), 100)]]]_vars

\* C6 witness: a command without parameters answered 200; the head of the
\* device's list has its action, the empty mapping and the receipt's timestamp.
C6_Witness ==
    \E s \in Slots :
        /\ req[s].kind = "command" /\ req[s].status = 200
        /\ req[s].body.parameters.type = "absent"
        /\ Commands(req[s].id) # <<>>
        /\ Commands(req[s].id)[1] =
                [action |-> req[s].receipt.action_performed, parameters |-> "{}",
                 timestamp |-> req[s].receipt.timestamp]

\* C9: GET /devices/{id} and POST /devices/{id}/command (valid body) on a
\* stored record that lacks name or type are answered 500 at the fetch the
\* store answers: not 404, not 200 with a defaulted value; the command is not
\* appended (no key of the store changes).
C9_InvalidRecord500 ==
    [][\A s \in Slots :
        (/\ FetchStep(s, "get") \/ FetchStep(s, "command")
         /\ Stored(req[s].id) # {}
         /\ ~HasNameAndType(Stored(req[s].id)))
        => /\ req'[s].pc = "done"
           /\ req'[s].status = 500
           /\ req'[s].device = NoDevice
           /\ store' = store]_vars

\* C9 witness: a GET and a command on a record that lacks name or type, both
\* answered 500; the device's list is as seeded.
C9_Witness ==
    \E s, t \in Slots :
        /\ req[s].kind = "get" /\ req[s].status = 500
        /\ req[t].kind = "command" /\ req[t].status = 500
        /\ req[s].raw # {} /\ ~HasNameAndType(req[s].raw)
        /\ req[t].raw # {} /\ ~HasNameAndType(req[t].raw)
        /\ Len(Commands(D1)) = seeded

\* C10: when the store connection fails while the device record is fetched,
\* GET /devices/{id} and POST /devices/{id}/command are answered 503, never
\* 404. (A request whose fault is ConnectionError and that holds no timestamp
\* met the failure at the fetch.)
C10_FetchFailureIs503 ==
    \A s \in Slots :
        (/\ req[s].pc = "done"
         /\ req[s].kind \in {"get", "command"}
         /\ req[s].fault = "ConnectionError"
         /\ req[s].time = 0)
        => req[s].status = 503 /\ req[s].status # 404

\* a list whose every entry has a later timestamp than every entry after it
StrictlyNewestFirst(items) ==
    \A j, k \in 1 .. Len(items) : j < k => items[j].timestamp > items[k].timestamp

\* C7 as claimed: after concurrent successful commands every command list is
\* strictly newest-first: every entry's timestamp is later than the timestamp
\* of every entry that follows it in the list.
C7_StrictlyNewestFirst ==
    \A i \in DeviceIds : StrictlyNewestFirst(Commands(i))

\* C7 amended: among concurrent commands a list stays strictly newest-first
\* through every transaction whose command took its timestamp later than the
\* one at the head of the list (the transactions are executed in the order
\* the timestamps were taken, as when the commands are served one after
\* another); a command that took its timestamp earlier and is executed later
\* is put at the head all the same.
C7_NewestFirstWhenExecutedInOrder ==
    [][\A s \in Slots :
        (/\ req[s].pc = "execute"
         /\ req'[s] # req[s]
         /\ StrictlyNewestFirst(Commands(req[s].id))
         /\ Commands(req[s].id) # <<>> =>
                req[s].time > Commands(req[s].id)[1].timestamp)
        => StrictlyNewestFirst(ListItems(store', CommandsKey(req[s].id)))]_vars

\* C7 witness: two concurrent commands to D1 were executed in the order of
\* their timestamps; they are the first two entries, the later at the head.
C7_Witness ==
    /\ Len(Commands(D1)) >= 2
    /\ Commands(D1)[2].action # "old"
    /\ Commands(D1)[1].timestamp > Commands(D1)[2].timestamp
    /\ \A s \in Slots : req[s].status = 200 /\ req[s].id = D1

\* C8: GET /devices skips a stored record that fails validation: when the
\* store answers every call, the request is answered 200 with every device
\* whose record has name and type, whatever the other records lack.
C8_ListingSkipsInvalid ==
    \A s \in Slots :
        (req[s].kind = "list" /\ req[s].pc = "done" /\ req[s].fault = "ok"
            /\ pool = "ready")
        => /\ req[s].status = 200
           /\ {d.id : d \in Elements(req[s].devices_out)} =
                {i \in DeviceIds : HasNameAndType(Stored(i))}

\* C11: GET /health is answered 200 in every state of the store and of the
\* connection pool, the pool never initialised included.
C11_HealthAlways200 ==
    \A s \in Slots :
        (req[s].kind = "health" /\ req[s].pc = "done") => req[s].status = 200

\* C12: a request that obtained a store client holds it while it is served
\* and has released it exactly once when it is answered, whatever the answer
\* (200, 400, 404, 500, 503); a request refused by the dependency never had
\* one; so once all requests are answered no client is held.
C12_ClientReleasedOnce ==
    \A s \in Slots :
        /\ req[s].pc \notin {"idle", "done"}
                => req[s].client = "open" /\ req[s].releases = 0
        /\ req[s].pc = "done" =>
                IF pool = "ready"
                THEN req[s].client = "closed" /\ req[s].releases = 1
                ELSE req[s].client = "none" /\ req[s].releases = 0

\* C12 witness: every request is answered, one with an error status after
\* it obtained its client, one with 200; each released its client once.
C12_Witness ==
    /\ \A s \in Slots : req[s].pc = "done" /\ req[s].releases = 1
    /\ \E s \in Slots : req[s].status \in {400, 404, 500, 503}
    /\ \E s \in Slots : req[s].status = 200

\* C13: decoding an absent record signals NotFound, never InvalidRecord:
\* hgetall of a key that is not there gives the helper an empty mapping, for
\* which it returns None, and GET /devices/{id} for the id is answered 404
\* (not 500) at the fetch the store answers.
C13_AbsentRecordIs404 ==
    [][\A s \in Slots :
        (/\ FetchStep(s, "get")
         /\ store[DeviceKey(req[s].id)].kind = "none")
        => /\ get_device_data_from_redis(store, req[s].id, "ok").tag = "none"
           /\ req'[s].pc = "done"
           /\ req'[s].status = 404]_vars

\* C13 witness: a GET for an id without a record, answered 404 by a fetch
\* the store answered.
C13_Witness ==
    \E s \in Slots :
        /\ req[s].kind = "get" /\ req[s].pc = "done" /\ req[s].fault = "ok"
        /\ store[DeviceKey(req[s].id)].kind = "none"
        /\ req[s].status = 404

\* the devices that have a stored record, in ascending order of their ids
StoredIds ==
    LET HasRecord(i) == store[DeviceKey(i)].kind = "hash"
    IN  SelectSeq(IdOrder, HasRecord)

\* the decoding of the stored record of a device
Decoded(device_id) ==
    [id |-> device_id,
     name |-> FieldValue(Stored(device_id), "name"),
     type |-> FieldValue(Stored(device_id), "type"),
     status |-> IF \E p \in Stored(device_id) : p[1] = "status"
                THEN FieldValue(Stored(device_id), "status") ELSE "active",
     online |-> StoredOnline(Stored(device_id))]

\* C14: on a store that holds only valid records (the device records do not
\* change while the request is served), GET /devices, every call answered by
\* the store, is answered 200 with exactly one Device per stored device:<id>
\* hash, each the decoding of its record; on the empty store the result is
\* the empty list.
C14_ListingReturnsEveryDevice ==
    \A s \in Slots :
        (/\ req[s].kind = "list" /\ req[s].pc = "done" /\ req[s].fault = "ok"
         /\ \A i \in DeviceIds :
                store[DeviceKey(i)].kind = "hash" => HasNameAndType(Stored(i)))
        => /\ req[s].status = 200
           /\ req[s].devices_out =
                [k \in 1 .. Len(StoredIds) |-> Decoded(StoredIds[k])]

\* C14 witness: a listing of a store with two valid records, answered with
\* two devices.
C14_Witness ==
    \E s \in Slots :
        /\ req[s].kind = "list" /\ req[s].status = 200 /\ req[s].fault = "ok"
        /\ Len(StoredIds) = 2
        /\ Len(req[s].devices_out) = 2

\* C14 witness on the empty store: the listing is answered 200 with the
\* empty list.
C14_WitnessEmpty ==
    \E s \in Slots :
        /\ req[s].kind = "list" /\ req[s].status = 200
        /\ StoredIds = <<>> /\ \A k \in Keys : store[k].kind = "none"
        /\ req[s].devices_out = <<>>

\* the devices a request returned to its caller
Returned(s) ==
    IF req[s].status # 200 THEN {}
    ELSE IF req[s].kind = "get" THEN {req[s].device}
    ELSE IF req[s].kind = "list" THEN Elements(req[s].devices_out)
    ELSE {}

\* C15: every Device returned by GET /devices or GET /devices/{id} has a
\* non-empty name and a non-empty type: a stored record whose name or type is
\* the empty string is never returned as a Device.
C15_ReturnedNameTypeNonEmpty ==
    \A s \in Slots : \A d \in Returned(s) : d.name # "" /\ d.type # ""

\* a Device written back in the stored form: the fields name, type, status,
\* and online as "true" or "false"
Serialize(device) ==
    {<<"name", device.name>>, <<"type", device.type>>,
     <<"status", device.status>>,
     <<"online", IF device.online THEN "true" ELSE "false">>}

\* C16 as claimed: for every valid stored record, decoding it and writing the
\* Device back in the stored form yields the same name, type, status and
\* online field values as the stored record.
C16_RoundTripExact ==
    \A s \in Slots :
        (req[s].kind = "get" /\ req[s].status = 200)
            => Serialize(req[s].device) =
                    {p \in req[s].raw : p[1] \in {"name", "type", "status", "online"}}

\* C16 amended: the round trip keeps name and type exactly, keeps status or
\* puts "active" where the record has none, and puts online in canonical
\* form: "true" when the stored field lower-cases to "true", "false" for any
\* other value and for a record without the field. It is exact for a record
\* that has all four fields and whose online is "true" or "false".
C16_RoundTripNormalises ==
    \A s \in Slots :
        (req[s].kind = "get" /\ req[s].status = 200) =>
            LET raw == req[s].raw
                back == Serialize(req[s].device)
                Has(f) == \E p \in raw : p[1] = f
                Canonical == /\ Has("status")
                             /\ \E p \in raw : p[1] = "online" /\ p[2] \in {"true", "false"}
            IN  /\ \A p \in raw : p[1] \in {"name", "type", "status"} => p \in back
                /\ ~Has("status") => <<"status", "active">> \in back
                /\ <<"online", "true">> \in back <=> StoredOnline(raw)
                /\ Canonical =>
                        back = {p \in raw : p[1] \in {"name", "type", "status", "online"}}

\* C16 witness: a GET decoded a record stored with online "false" and all
\* fields; written back, the Device is the stored record.
C16_Witness ==
    \E s \in Slots :
        /\ req[s].kind = "get" /\ req[s].status = 200
        /\ req[s].raw = OfflineRecord
        /\ Serialize(req[s].device) = OfflineRecord

\* C17: the online value of a decoded Device is true exactly when the stored
\* online field, lower-cased, equals "true"; a record without online field
\* decodes to online = false; and a command passes the checks of its handler
\* (is stamped, executed, answered 200) only when this value is true.
C17_OnlineDerivedFromField ==
    \A s \in Slots :
        /\ (req[s].kind = "get" /\ req[s].status = 200) =>
                /\ req[s].device.online <=> StoredOnline(req[s].raw)
                /\ (~\E p \in req[s].raw : p[1] = "online") => ~req[s].device.online
        /\ (req[s].kind = "command"
                /\ (req[s].pc \in {"stamp", "execute"} \/ req[s].status = 200))
            => StoredOnline(req[s].raw)

\* C17 witness: a record stored with online "TRUE" is returned by a GET as
\* an online Device, and a command to it is accepted.
C17_Witness ==
    \E s, t \in Slots :
        /\ req[s].kind = "get" /\ req[s].status = 200
        /\ req[s].raw = UpperRecord /\ req[s].device.online
        /\ req[t].kind = "command" /\ req[t].status = 200
        /\ req[t].raw = UpperRecord

\* the identifiers GET /devices enumerated, once its scan is complete: those
\* of the devices it put in its result, then those it has yet to fetch
Enumerated(s) ==
    [k \in 1 .. Len(req[s].devices_out) |-> req[s].devices_out[k].id]
        \o req[s].device_ids

\* the place of an id in the ascending order of the ids
Rank(device_id) == CHOOSE k \in 1 .. Len(IdOrder) : IdOrder[k] = device_id

\* C18: the identifiers GET /devices enumerates (its scan complete, the
\* cursor back at 0) hold no duplicate, even when the scan returned a key
\* more than once, are in ascending order, and none ends in ":commands"; the
\* devices returned follow that order.
C18_IdsUniqueSortedNoCommands ==
    \A s \in Slots :
        (req[s].kind = "list" /\ req[s].cursor = IntCursor(0)) =>
            /\ \A j, k \in 1 .. Len(Enumerated(s)) :
                    j < k => Rank(Enumerated(s)[j]) < Rank(Enumerated(s)[k])
            /\ \A k \in 1 .. Len(Enumerated(s)) :
                    Enumerated(s)[k][Len(Enumerated(s)[k])] # "commands"

\* C18 witness: a listing returned both devices, d1 before d2, from a store
\* that also holds a command list.
C18_Witness ==
    \E s \in Slots :
        /\ req[s].kind = "list" /\ req[s].status = 200
        /\ Len(req[s].devices_out) = 2
        /\ req[s].devices_out[1].id = D1 /\ req[s].devices_out[2].id = D2
        /\ store[CommandsKey(D1)].kind = "list"

\* C19: no step of the service creates, changes or deletes a device:<id>
\* record; the steps of GET /devices, GET /devices/{id} and GET /health leave
\* the whole store unchanged; and the only key a step of a POST command
\* changes is the device:<id>:commands of its own device.
C19_RecordsNeverWritten ==
    [][/\ \A i \in DeviceIds : store'[DeviceKey(i)] = store[DeviceKey(i)]
       /\ \A s \in Slots :
            (req'[s] # req[s] /\ req'[s].kind \in {"get", "list", "health"})
                => store' = store
       /\ \A s \in Slots :
            (req'[s] # req[s] /\ req'[s].kind = "command")
                => \A k \in Keys \ {CommandsKey(req'[s].id)} :
                        store'[k] = store[k]]_vars

\* C19 witness: a GET was answered and a command was logged; the record of
\* the command's device is in the store.
C19_Witness ==
    \E s, t \in Slots :
        /\ req[s].kind \in {"get", "list", "health"} /\ req[s].status = 200
        /\ req[t].kind = "command" /\ req[t].status = 200
        /\ Commands(req[t].id) # <<>>
        /\ Commands(req[t].id)[1].timestamp = req[t].time
        /\ store[DeviceKey(req[t].id)].kind = "hash"

\* C20: command entries are append-only and immutable: each successful
\* command turns the list L of its device into the first 100 elements of
\* (its entry, then L), and every step that changes a list is such a
\* transaction: the entries of L keep their content and their order, one
\* place further from the head, and only what falls beyond position 100 is
\* removed.
C20_AppendOnly ==
    [][\A i \in DeviceIds :
        LET L == Commands(i)
            M == ListItems(store', CommandsKey(i))
        IN  /\ \A s \in Slots :
                    (req[s].pc = "execute" /\ req[s].id = i
                        /\ req'[s].status = 200)
                    => /\ M # <<>>
                       /\ M[1].timestamp = req[s].time
                       /\ M[1].action = req[s].body.action.val
            /\ M # L =>
                    /\ Len(M) = Min(Len(L) + 1, 100)
                    /\ \A k \in 2 .. Len(M) : M[k] = L[k - 1]
                    /\ \E s \in Slots :
                            /\ req[s].pc = "execute" /\ req[s].id = i
                            /\ req'[s].pc = "done"
                            /\ M[1] = RequestedEntry(req[s].body, req[s].time)]_vars

\* C20 witness: a full list took a command and a list one short of the limit
\* took two: the oldest entry is gone, the others follow the new ones in
\* their order.
C20_Witness ==
    /\ seeded = 99
    /\ Len(Commands(D1)) = 100
    /\ Commands(D1)[1].action # "old" /\ Commands(D1)[2].action # "old"
    /\ Commands(D1)[3] = CommandEntry("old", "{}", 99)
    /\ Commands(D1)[100] = CommandEntry("old", "{}", 2)

\* C21: the service holds no cached device state: every request decides from
\* the record as it is in the store when the request reads it. With the
\* online field set by an external actor between requests, a GET reports
\* the online value the record has at its read, a valid command is accepted
\* (stamped, executed, answered 200) when the record is online at its read
\* and answered 400 when it is not, whatever earlier requests have read.
C21_DecidesFromStoreAtRead ==
    [][\A s \in Slots :
        /\ (FetchStep(s, "get") /\ HasNameAndType(Stored(req[s].id)))
            => /\ req'[s].status = 200
               /\ req'[s].device.online <=> StoredOnline(Stored(req[s].id))
        /\ (FetchStep(s, "command") /\ HasNameAndType(Stored(req[s].id)))
            => IF StoredOnline(Stored(req[s].id))
               THEN req'[s].pc = "stamp"
               ELSE req'[s].pc = "done" /\ req'[s].status = 400
        /\ (req[s].pc = "execute" /\ req'[s] # req[s]) => req'[s].status = 200]_vars

\* C21 witness: two commands to D1, one answered 400 on the record read with
\* online "false", one answered 200 on the record read with online "true":
\* the field was set between their reads.
C21_Witness ==
    \E s, t \in Slots :
        /\ req[s].kind = "command" /\ req[s].id = D1 /\ req[s].status = 400
        /\ <<"online", "false">> \in req[s].raw
        /\ req[t].kind = "command" /\ req[t].id = D1 /\ req[t].status = 200
        /\ <<"online", "true">> \in req[t].raw

\* C22: a store failure at any store call of GET /devices (a scan, or the
\* fetch of an enumerated device) is answered 503: the request is never
\* answered 200 with the devices missing whose fetch failed.
C22_ListingFailureIs503 ==
    \A s \in Slots :
        (req[s].kind = "list" /\ req[s].pc = "done" /\ req[s].fault # "ok")
            => req[s].status = 503

\* C23: a stored non-empty record that lacks the status field fails decoding
\* with InvalidRecord: GET /devices/{id} on it, the store answering the
\* fetch, is answered 500 and yields no Device.
C23_NoStatusIs500 ==
    \A s \in Slots :
        (/\ req[s].kind = "get" /\ req[s].pc = "done" /\ req[s].fault = "ok"
         /\ req[s].raw # {}
         /\ ~\E p \in req[s].raw : p[1] = "status")
        => req[s].status = 500 /\ req[s].device = NoDevice

\* C24: when the store fails during the prepend-and-trim transaction of a
\* command, the request is answered 503 and the device's list is either what
\* it was (neither step) or the requested entry prepended and the list cut to
\* its first 100 (both steps); a command becomes answered 200 only in the step
\* in which its transaction is executed, the list then showing both steps.
C24_TransactionFailureIs503 ==
    [][\A s \in Slots :
        LET k == CommandsKey(req[s].id)
            both == FirstEntries(
                        <<RequestedEntry(req[s].body, req[s].time)>>
                            \o store[k].items, 100)
        IN  /\ (/\ req[s].pc = "execute"
                /\ req'[s] # req[s]
                /\ req'[s].fault # "ok")
               => /\ req'[s].pc = "done"
                  /\ req'[s].status = 503
                  /\ \/ store'[k].items = store[k].items
                     \/ store'[k].items = both
            /\ (/\ req'[s].kind = "command"
                /\ req[s].status # 200
                /\ req'[s].status = 200)
               => /\ req[s].pc = "execute"
                  /\ store'[k].items = both]_vars

\* C24 witness: a command whose transaction the store executed at a full list
\* and whose answer was lost: it is answered 503 and the list, still 100
\* long, has its entry at the head.
C24_Witness ==
    \E s \in Slots :
        /\ req[s].kind = "command" /\ req[s].pc = "done"
        /\ req[s].fault = "ReplyLost" /\ req[s].status = 503
        /\ Len(Commands(req[s].id)) = 100
        /\ Commands(req[s].id)[1].timestamp = req[s].time

\* C25: a request that finds every pooled connection in use waits for one or
\* is answered 503: a request that ended because the pool had no connection
\* for it is never answered with another status such as 404.
C25_ExhaustedPoolIs503 ==
    \A s \in DOMAIN req :
        (req[s].pc = "done" /\ req[s].fault = "ConnectionError")
            => req[s].status = 503

\* C26: whenever a step prepends an entry to device:<id>:commands, the record
\* device:<id> exists and is online in the state the step is taken in, also
\* while external actors change or delete device records.
C26_PrependOnlyWhileOnline ==
    [][\A i \in DeviceIds :
        Commands(i)' # Commands(i)
            => /\ store[DeviceKey(i)].kind = "hash"
               /\ HasNameAndType(Stored(i))
               /\ StoredOnline(Stored(i))]_vars

\* C27: the Device produced for a request on id X, or for the listed key
\* device:X, has id = X whatever the stored hash holds, a stored field named
\* id and fields the models do not declare included.
C27_IdIsRequestedId ==
    [][\A s \in Slots :
        /\ (/\ req'[s].kind = "get"
            /\ req[s].status # 200
            /\ req'[s].status = 200)
           => req'[s].device.id = req'[s].id
        /\ (/\ req[s].kind = "list"
            /\ req[s].pc = "fetch"
            /\ Len(req'[s].devices_out) > Len(req[s].devices_out))
           => req'[s].devices_out[Len(req'[s].devices_out)].id =
                    Head(req[s].device_ids)]_vars

\* C27 witness: a GET answered 200 for a record that stores an id field with
\* another device's id; the Device has the requested id.
C27_Witness ==
    \E s \in Slots :
        /\ req[s].kind = "get" /\ req[s].status = 200
        /\ \E p \in req[s].raw : p[1] = "id" /\ p[2] # req[s].id
        /\ req[s].device.id = req[s].id

\* C28: on a store that does not change and holds only valid records, an id
\* is the id of a Device in the result of GET /devices if and only if
\* GET /devices/{id} is answered 200 for it, for every id, one that ends in
\* ":commands" included.
C28_ListedIffGettable ==
    \A s, t \in Slots :
        (/\ req[s].kind = "list" /\ req[s].pc = "done" /\ req[s].status = 200
         /\ req[t].kind = "get" /\ req[t].pc = "done")
        => ((\E d \in Elements(req[s].devices_out) : d.id = req[t].id)
                <=> req[t].status = 200)

\* C29: a command to device A leaves the command list of every other device
\* B unchanged, under any interleaving of concurrent commands to A and B: a
\* step changes the list of a device only when it is the execute step of a
\* command to that device.
C29_OtherListsUnchanged ==
    [][\A b \in DeviceIds :
        Commands(b)' # Commands(b)
            => \E s \in Slots :
                    /\ req[s].pc = "execute"
                    /\ req'[s] # req[s]
                    /\ req[s].id = b]_vars

\* C29 witness: a command to d1 and a command to d2, both answered 200; each
\* list has at its head the entry of the command sent to its device, and the
\* list of d2 holds nothing else.
C29_Witness ==
    \E s, t \in Slots :
        /\ req[s].kind = "command" /\ req[s].id = D1 /\ req[s].status = 200
        /\ req[t].kind = "command" /\ req[t].id = D2 /\ req[t].status = 200
        /\ Commands(D1)[1].timestamp = req[s].time
        /\ Len(Commands(D2)) = 1
        /\ Commands(D2)[1].timestamp = req[t].time

\* C30: when an external actor has deleted a device record after GET /devices
\* enumerated its key and before the record is fetched, the fetch omits the
\* device and the request goes on, answered 200 with the devices it has when
\* that was the last id; every Device the listing appends is the decoding of
\* the record stored under its key at that fetch.
C30_DeletedAfterEnumerationOmitted ==
    [][\A s \in Slots :
        (req[s].kind = "list" /\ req[s].pc = "fetch" /\ req'[s] # req[s]) =>
            LET device_id_str == Head(req[s].device_ids)
            IN  /\ store[DeviceKey(device_id_str)].kind = "none"
                    => /\ req'[s].devices_out = req[s].devices_out
                       /\ req'[s].pc \in {"fetch", "done"}
                       /\ req'[s].pc = "done" => req'[s].status = 200
                /\ req'[s].devices_out # req[s].devices_out
                    => /\ store[DeviceKey(device_id_str)].kind = "hash"
                       /\ req'[s].devices_out =
                            Append(req[s].devices_out, Decoded(device_id_str))]_vars

\* C30 witness: a listing that enumerated d1 and d2 and has fetched neither,
\* while the record of d1 is gone.
C30_Witness ==
    \E s \in Slots :
        /\ req[s].kind = "list" /\ req[s].pc = "fetch"
        /\ req[s].device_ids = <<D1, D2>>
        /\ store[DeviceKey(D1)].kind = "none"

\* C31: the app starts serving whatever the initialisation of the pool did;
\* a failed initialisation leaves the pool unset; while the app serves, the
\* pool is never initialised or changed; with the pool unset every
\* GET /devices, GET /devices/{id} and POST command is answered 503 in the
\* step it arrives and the store is not touched; an initialisation that
\* finds a pool keeps it.
C31_UnsetPoolStaysUnset ==
    [][/\ lifespan = "startup"
            => /\ lifespan' = "serving"
               /\ pool = "ready" => pool' = "ready"
               /\ req' = req /\ store' = store
       /\ \A o \in StoreOutcomes \ {"ok"} :
                initialize_redis_pool("unset", o) = "unset"
       /\ lifespan = "serving" => lifespan' = "serving" /\ pool' = pool
       /\ (lifespan = "serving" /\ pool = "unset")
            => /\ store' = store
               /\ \A s \in Slots :
                    req'[s] # req[s]
                        => /\ req[s].pc = "idle"
                           /\ req'[s].kind \in {"list", "get", "command"}
                           /\ req'[s].pc = "done"
                           /\ req'[s].status = 503]_vars

\* C31 witness: the app serves with the pool unset and has answered two
\* requests, both 503, one of them a listing or a GET of a device.
C31_Witness ==
    /\ lifespan = "serving" /\ pool = "unset"
    /\ \E s, t \in Slots :
            /\ req[s].kind \in {"list", "get"} /\ req[s].status = 503
            /\ req[t].kind = "command" /\ req[t].status = 503

\* C32: the key enumeration of GET /devices enters its loop (the initial
\* cursor is not the int 0, so a first scan call is issued); each scan call
\* answered by the store walks on from the cursor the request holds, and the
\* request keeps the cursor returned; it scans again exactly when that
\* cursor is not 0. The store's scan reaching cursor 0 after finitely many
\* calls, a request that has started enumerating is eventually answered.
C32_ScanLoopTerminates ==
    /\ [][\A s \in Slots :
            /\ (req[s].pc = "idle" /\ req'[s].pc = "scan")
                => req'[s].cursor # IntCursor(0)
            /\ (/\ req[s].kind = "list" /\ req[s].pc = "scan"
                /\ req'[s] # req[s] /\ req'[s].fault = "ok")
                => \E upto \in (req[s].cursor.val + 1) .. Len(KeyOrder),
                      again \in BOOLEAN :
                        LET got == Scan(store, req[s].cursor.val, upto, again)
                        IN  /\ req'[s].cursor = IntCursor(got.cursor)
                            /\ (got.cursor # 0) <=> (req'[s].pc = "scan")]_vars
    /\ \A s \in {1} :
            (req[s].kind = "list" /\ req[s].pc = "scan") ~> (req[s].pc = "done")

\* C32 witness: a listing answered 200, the cursor it holds the int 0 the
\* store returned, with both devices in the result.
C32_Witness ==
    \E s \in Slots :
        /\ req[s].kind = "list" /\ req[s].status = 200
        /\ req[s].cursor = IntCursor(0)
        /\ Len(req[s].devices_out) = 2

\* C33: in every GET /health response application_status is "healthy", and
\* the store status is "healthy" if and only if the ping of the request
\* succeeded, "unhealthy" when the ping raised a store error.
C33_HealthBody ==
    \A s \in Slots :
        (req[s].kind = "health" /\ req[s].pc = "done")
            => /\ req[s].application_status = "healthy"
               /\ req[s].redis_status = "healthy"
                    <=> (req[s].fault = "ok" /\ pool = "ready")
               /\ req[s].fault # "ok" => req[s].redis_status = "unhealthy"

====
